---- MODULE Spec2Model ----
(***************************************************************************)
(* Model of the taxi-trip query layer of lakebase-fastapi-app:             *)
(*   src/src/routers/taxi.py          the endpoints of the /trips router   *)
(*   src/src/services/taxi_service.py TaxiService (analytics, vendor       *)
(*                                    update)                              *)
(*   src/src/main.py                  the application's exception handlers *)
(*   src/src/models/taxi.py           the row and response types           *)
(* The trip table is the only persistent state.  A request is one atomic   *)
(* step: the endpoint runs against the table, the statements it issues are *)
(* logged in queries, and its response is left in resp until the request   *)
(* completes.                                                              *)
(***************************************************************************)
EXTENDS Integers, Sequences, FiniteSets, TLC

VARIABLES trips, req, resp, queries, chain

vars == <<trips, req, resp, queries, chain>>

-----------------------------------------------------------------------------
(* Bounds of the model *)

MaxId == 4

MaxPage == 4

MaxPageSize == 3

MaxTime == 2

MaxTrips == 3

(* Program constants *)

PageSizeMax == 1000

SampleLimit == 5

VendorLimit == 10

(* Ids are integers: the primary key carries no sign constraint. *)
IdRange == (0 - 1)..MaxId

Vendors == {"A", "B"}

PageInputs == 0..MaxPage

PageSizeInputs == (0..MaxPageSize) \cup {PageSizeMax, PageSizeMax + 1}

CursorInputs == (0 - 1)..MaxId

TripIdInputs == (0 - 1)..(MaxId + 1)

-----------------------------------------------------------------------------
(* Python values *)

None == <<>>

Some(v) == <<v>>

\* truth value of an Optional[int]: None and 0 are both falsy
Truthy(opt) == opt # None /\ opt[1] # 0

Max(a, b) == IF a >= b THEN a ELSE b

Min(a, b) == IF a <= b THEN a ELSE b

-----------------------------------------------------------------------------
(* The table and the SQL the endpoints build *)

TaxiTripBase == [vendor_id : Vendors, pickup_datetime : 0..MaxTime, dropoff_datetime : 0..MaxTime]

\* the projection id, vendor_id, pickup_datetime, dropoff_datetime of one row
TaxiTripRead(db, i) ==
    [id |-> i, vendor_id |-> db[i].vendor_id,
     pickup_datetime |-> db[i].pickup_datetime,
     dropoff_datetime |-> db[i].dropoff_datetime]

RECURSIVE SortAsc(_)
SortAsc(S) ==
    IF S = {} THEN <<>>
    ELSE LET m == CHOOSE x \in S : \A y \in S : x <= y
         IN <<m>> \o SortAsc(S \ {m})

\* .order_by(TaxiTrip.id) over the rows whose id is in S
OrderById(db, S) == LET ids == SortAsc(S) IN [k \in 1..Len(ids) |-> TaxiTripRead(db, ids[k])]

\* .offset(n)
Offset(s, n) == SubSeq(s, n + 1, Len(s))

\* .limit(n), and the slice s[:n]
Limit(s, n) == SubSeq(s, 1, Min(n, Len(s)))

\* select(func.count(TaxiTrip.id))
CountStmt(db) == Cardinality(DOMAIN db)

-----------------------------------------------------------------------------
(* Store failures and the way they leave an endpoint *)

Faults == {"OperationalError", "TimeoutError", "SQLAlchemyError"}

NoFault == [kind |-> "none", at |-> 0]

\* the fault of a request: no fault, or the at-th store call raises kind
FaultInputs(n) == {NoFault} \cup [kind : Faults, at : 1..n]

Fails(fault, k) == fault.kind # "none" /\ fault.at = k

Returned(value, q, db) == [exc |-> "none", value |-> value, queries |-> q, db |-> db]

Raised(exc, detail, q, db) == [exc |-> exc, status |-> 0, detail |-> detail, queries |-> q, db |-> db]

HTTPException(status, detail, q, db) ==
    [exc |-> "HTTPException", status |-> status, detail |-> detail, queries |-> q, db |-> db]

\* the exception handlers of the application, applied to what leaves the endpoint
ExceptionHandlers(r) ==
    CASE r.exc = "none" -> [status |-> 200, body |-> r.value]
      [] r.exc = "HTTPException" -> [status |-> r.status, body |-> [detail |-> r.detail]]
      [] r.exc = "OperationalError" ->
            [status |-> 503, body |-> [detail |-> "Database temporarily unavailable. Please try again later."]]
      [] r.exc = "TimeoutError" ->
            [status |-> 504, body |-> [detail |-> "Request timed out. Please try again."]]
      [] r.exc = "SQLAlchemyError" ->
            [status |-> 500, body |-> [detail |-> "Database error occurred. Please try again later."]]
      [] OTHER -> [status |-> 500, body |-> [detail |-> "Internal Server Error"]]

\* a request rejected by the declared parameter constraints: the endpoint is not entered
RequestValidationError(db) == HTTPException(422, "validation error", <<>>, db)

-----------------------------------------------------------------------------
(* Page mode *)

ValidPage(page) == page >= 1

\* the page size without its upper limit
ValidPageSize_NoUpper(page_size) == page_size >= 1

ValidPageSize(page_size) == page_size >= 1 /\ page_size <= PageSizeMax

ValidCursor(cursor) == cursor >= 0

TotalPages(total_count, page_size) == (total_count + page_size - 1) \div page_size

\* the offset taken one page too far
PageOffset_OffByOne(page, page_size) == page * page_size

PageOffset(page, page_size) == (page - 1) * page_size

PageFetchLimit(page_size) == page_size + 1

PageHasNext(all_trips, page_size) == Len(all_trips) > page_size

PageHasPrevious(page) == page > 1

PageNextCursor(rows, has_next) ==
    IF Len(rows) > 0 /\ has_next THEN Some(rows[Len(rows)].id) ELSE None

\* trips[0].id - page_size if trips and has_previous else None, then
\* max(0, previous_cursor) if previous_cursor else None
PagePreviousCursor(rows, page_size, has_previous) ==
    LET previous_cursor == IF Len(rows) > 0 /\ has_previous
                           THEN Some(rows[1].id - page_size) ELSE None
    IN IF Truthy(previous_cursor) THEN Some(Max(0, previous_cursor[1])) ELSE None

\* the count issued whatever include_count says
PageCountQueries_Always(include_count) == <<"count">>

PageCountQueries(include_count) == IF include_count THEN <<"count">> ELSE <<>>

get_trips_by_page_try(db, page, page_size, include_count, fault) ==
    LET q1 == PageCountQueries(include_count)
        q2 == Append(q1, "select_page")
    IN IF Len(q1) > 0 /\ Fails(fault, 1) THEN Raised(fault.kind, "", q1, db)
       ELSE IF Fails(fault, Len(q2)) THEN Raised(fault.kind, "", q2, db)
       ELSE LET total_count == IF include_count THEN CountStmt(db) ELSE -1
                total_pages == IF include_count THEN TotalPages(total_count, page_size) ELSE -1
                offset == PageOffset(page, page_size)
                all_trips == Limit(Offset(OrderById(db, DOMAIN db), offset), PageFetchLimit(page_size))
                has_next == PageHasNext(all_trips, page_size)
                rows == Limit(all_trips, page_size)
                has_previous == PageHasPrevious(page)
            IN Returned([trips |-> rows,
                         pagination |-> [page |-> page, page_size |-> page_size,
                                         total_pages |-> total_pages, total_count |-> total_count,
                                         has_next |-> has_next, has_previous |-> has_previous,
                                         next_cursor |-> PageNextCursor(rows, has_next),
                                         previous_cursor |-> PagePreviousCursor(rows, page_size, has_previous)]],
                        q2, db)

get_trips_by_page(db, page, page_size, include_count, fault) ==
    IF ~(ValidPage(page) /\ ValidPageSize(page_size)) THEN RequestValidationError(db)
    ELSE LET r == get_trips_by_page_try(db, page, page_size, include_count, fault)
         IN IF r.exc # "none" THEN HTTPException(500, "Failed to retrieve trips", r.queries, db)
            ELSE r

-----------------------------------------------------------------------------
(* Cursor mode *)

\* the cursor row itself let through
CursorWhere_Inclusive(id, cursor) == id >= cursor

CursorWhere(id, cursor) == id > cursor

\* the fetch without its look-ahead row
CursorFetchLimit_NoLookahead(page_size) == page_size

CursorFetchLimit(page_size) == page_size + 1

CursorHasNext(all_trips, page_size) == Len(all_trips) > page_size

CursorHasPrevious(cursor) == cursor > 0

CursorNextCursor(rows, has_next) ==
    IF Len(rows) > 0 /\ has_next THEN Some(rows[Len(rows)].id) ELSE None

CursorPreviousCursor(cursor, page_size, has_previous) ==
    IF has_previous THEN Some(Max(0, cursor - page_size)) ELSE None

get_trips_by_cursor_try(db, cursor, page_size, fault) ==
    LET q == <<"select_after">>
    IN IF Fails(fault, 1) THEN Raised(fault.kind, "", q, db)
       ELSE LET all_trips == Limit(OrderById(db, {i \in DOMAIN db : CursorWhere(i, cursor)}),
                                   CursorFetchLimit(page_size))
                has_next == CursorHasNext(all_trips, page_size)
                rows == Limit(all_trips, page_size)
                has_previous == CursorHasPrevious(cursor)
            IN Returned([trips |-> rows,
                         pagination |-> [page_size |-> page_size,
                                         has_next |-> has_next, has_previous |-> has_previous,
                                         next_cursor |-> CursorNextCursor(rows, has_next),
                                         previous_cursor |-> CursorPreviousCursor(cursor, page_size, has_previous)]],
                        q, db)

get_trips_by_cursor(db, cursor, page_size, fault) ==
    IF ~(ValidCursor(cursor) /\ ValidPageSize(page_size)) THEN RequestValidationError(db)
    ELSE LET r == get_trips_by_cursor_try(db, cursor, page_size, fault)
         IN IF r.exc # "none" THEN HTTPException(500, "Failed to retrieve trips", r.queries, db)
            ELSE r

-----------------------------------------------------------------------------
(* Count, sample, single trip *)

get_trip_count(db, fault) ==
    IF Fails(fault, 1)
    THEN HTTPException(500, "Failed to retrieve trip count", <<"count">>, db)
    ELSE Returned([total_trips |-> CountStmt(db)], <<"count">>, db)

\* select(TaxiTrip.id).limit(5) has no ORDER BY: any SampleLimit ids may come
\* back; the sample is kept as the set of ids returned
SampleResults(db) ==
    {S \in SUBSET (DOMAIN db) : Cardinality(S) = Min(SampleLimit, Cardinality(DOMAIN db))}

get_sample_trips(db, sample, fault) ==
    IF Fails(fault, 1)
    THEN HTTPException(500, "Failed to retrieve sample trips", <<"select_sample">>, db)
    ELSE Returned([sample_trip_ids |-> sample], <<"select_sample">>, db)

read_trip(db, trip_id, fault) ==
    IF trip_id <= 0 THEN HTTPException(400, "Invalid trip ID provided", <<>>, db)
    ELSE IF Fails(fault, 1)
    THEN HTTPException(500, "Internal server error occurred", <<"select_by_id">>, db)
    ELSE IF trip_id \notin DOMAIN db
    THEN HTTPException(404, "Trip with ID not found", <<"select_by_id">>, db)
    ELSE Returned(TaxiTripRead(db, trip_id), <<"select_by_id">>, db)

-----------------------------------------------------------------------------
(* TaxiService: analytics.  Timestamps are whole seconds; the average       *)
(* duration is carried in hundredths of a minute, the unit round(x, 2)     *)
(* leaves it in.                                                           *)

get_total_trips(db) == CountStmt(db)

\* trips of no duration let into the average
DurationWhere_Inclusive(row) == row.dropoff_datetime >= row.pickup_datetime

\* WHERE dropoff_datetime::timestamp > pickup_datetime::timestamp
DurationWhere(row) == row.dropoff_datetime > row.pickup_datetime

RECURSIVE SumSeconds(_, _)
SumSeconds(db, S) ==
    IF S = {} THEN 0
    ELSE LET i == CHOOSE x \in S : TRUE
         IN (db[i].dropoff_datetime - db[i].pickup_datetime) + SumSeconds(db, S \ {i})

\* round(num/den, 2-digit unit): the nearest integers to num/den; a value
\* halfway between two is rounded by the numeric type the store returns
\* (Decimal or float), so both neighbours are outcomes
RoundHalf(num, den) ==
    LET q == num \div den
        r == num % den
    IN IF 2 * r < den THEN {q}
       ELSE IF 2 * r > den THEN {q + 1}
       ELSE {q, q + 1}

\* AVG(EXTRACT(epoch FROM dropoff - pickup) / 60) over the qualifying rows,
\* then round(avg_minutes or 0.0, 2)
calculate_avg_duration(db) ==
    LET Q == {i \in DOMAIN db : DurationWhere(db[i])}
    IN IF Q = {} THEN {0}
       ELSE RoundHalf(100 * SumSeconds(db, Q), 60 * Cardinality(Q))

HourOf(t) == (t \div 3600) % 24

HourCount(db, h) == Cardinality({i \in DOMAIN db : HourOf(db[i].pickup_datetime) = h})

\* GROUP BY hour ORDER BY COUNT(*) DESC LIMIT 1: any hour of maximal count
find_peak_hour(db) ==
    IF DOMAIN db = {} THEN {<<0, 0>>}
    ELSE LET hours == {HourOf(db[i].pickup_datetime) : i \in DOMAIN db}
         IN {<<h, HourCount(db, h)>> : h \in {g \in hours : \A k \in hours : HourCount(db, g) >= HourCount(db, k)}}

VendorCount(db, v) == Cardinality({i \in DOMAIN db : db[i].vendor_id = v})

\* GROUP BY vendor_id ORDER BY count DESC LIMIT 10, as a dict
get_vendor_distribution(db) ==
    LET groups == {db[i].vendor_id : i \in DOMAIN db}
    IN {[v \in G |-> VendorCount(db, v)] :
          G \in {H \in SUBSET groups :
                   /\ Cardinality(H) = Min(VendorLimit, Cardinality(groups))
                   /\ \A a \in H : \A b \in groups \ H : VendorCount(db, a) >= VendorCount(db, b)}}

AnalyticsQueries == <<"count", "avg_duration", "peak_hour", "vendor_distribution">>

TaxiService_get_trip_analytics(db, avg, peak, dist, fault) ==
    IF fault.kind # "none" /\ fault.at \in 1..Len(AnalyticsQueries)
    THEN Raised(fault.kind, "", SubSeq(AnalyticsQueries, 1, fault.at), db)
    ELSE Returned([total_trips |-> get_total_trips(db),
                   avg_trip_duration_minutes |-> avg,
                   peak_hour |-> peak[1],
                   peak_hour_trip_count |-> peak[2],
                   vendor_distribution |-> dist],
                  AnalyticsQueries, db)

get_trip_analytics(db, avg, peak, dist, fault) ==
    LET r == TaxiService_get_trip_analytics(db, avg, peak, dist, fault)
    IN IF r.exc # "none" THEN HTTPException(500, "Failed to retrieve trip analytics", r.queries, db)
       ELSE r

-----------------------------------------------------------------------------
(* TaxiService: vendor update *)

\* the update without its WHERE clause
UpdateStmt_NoWhere(db, trip_id, new_vendor_id) ==
    [i \in DOMAIN db |-> [db[i] EXCEPT !.vendor_id = new_vendor_id]]

\* update(TaxiTrip).where(TaxiTrip.id == trip_id).values(vendor_id=new_vendor_id)
UpdateStmt(db, trip_id, new_vendor_id) ==
    [i \in DOMAIN db |-> IF i = trip_id THEN [db[i] EXCEPT !.vendor_id = new_vendor_id] ELSE db[i]]

update_vendor_id(db, trip_id, new_vendor_id, fault) ==
    IF Fails(fault, 1) THEN Raised(fault.kind, "", <<"select_by_id">>, db)
    ELSE IF trip_id \notin DOMAIN db
    THEN Raised("ValueError", "Trip with ID not found", <<"select_by_id">>, db)
    ELSE IF Fails(fault, 2) THEN Raised(fault.kind, "", <<"select_by_id", "update">>, db)
    ELSE IF Fails(fault, 3) THEN Raised(fault.kind, "", <<"select_by_id", "update", "commit">>, db)
    ELSE Returned([id |-> trip_id, vendor_id |-> new_vendor_id,
                   message |-> "Vendor ID updated successfully in writable table"],
                  <<"select_by_id", "update", "commit">>,
                  UpdateStmt(db, trip_id, new_vendor_id))

update_trip_vendor(db, trip_id, new_vendor_id, fault) ==
    LET r == update_vendor_id(db, trip_id, new_vendor_id, fault)
    IN IF r.exc = "ValueError" THEN HTTPException(404, r.detail, r.queries, db)
       ELSE IF r.exc # "none" THEN HTTPException(500, "Failed to update vendor ID", r.queries, db)
       ELSE r

-----------------------------------------------------------------------------
(* The router: routes are tried in the order they are declared *)

PathParam == "{trip_id}"

Routes ==
    << [method |-> "GET",  path |-> <<"count">>,             endpoint |-> "get_trip_count"],
       [method |-> "GET",  path |-> <<"sample">>,            endpoint |-> "get_sample_trips"],
       [method |-> "GET",  path |-> <<"analytics">>,         endpoint |-> "get_trip_analytics"],
       [method |-> "GET",  path |-> <<PathParam>>,           endpoint |-> "read_trip"],
       [method |-> "GET",  path |-> <<"pages">>,             endpoint |-> "get_trips_by_page"],
       [method |-> "GET",  path |-> <<"stream">>,            endpoint |-> "get_trips_by_cursor"],
       [method |-> "POST", path |-> <<PathParam, "vendor">>, endpoint |-> "update_trip_vendor"] >>

\* a path parameter matches any one segment; a literal matches itself
PathMatches(pattern, path) ==
    /\ Len(pattern) = Len(path)
    /\ \A k \in 1..Len(pattern) : pattern[k] = PathParam \/ pattern[k] = path[k]

\* the first route matching path and method; failing that 405 when some route
\* matches the path alone, 404 when none does
ResolveRoute(method, path) ==
    LET full == {k \in 1..Len(Routes) : PathMatches(Routes[k].path, path) /\ Routes[k].method = method}
        partial == {k \in 1..Len(Routes) : PathMatches(Routes[k].path, path)}
    IN IF full # {} THEN Routes[CHOOSE k \in full : \A j \in full : k <= j].endpoint
       ELSE IF partial # {} THEN "405"
       ELSE "404"

\* trip_id: int, read from a path segment
ParseInt(seg) ==
    CASE seg = "0" -> Some(0)
      [] seg = "1" -> Some(1)
      [] seg = "2" -> Some(2)
      [] seg = "7" -> Some(7)
      [] OTHER -> None

PathInputs ==
    { <<"count">>, <<"sample">>, <<"analytics">>, <<"pages">>, <<"stream">>,
      <<"0">>, <<"1">>, <<"2">>, <<"1", "vendor">>, <<"7", "vendor">>,
      <<"pages", "vendor">>, <<"stream", "all">> }

\* the query strings ?page=1&page_size=100 and ?cursor=0&page_size=100
QueryInputs == {[page |-> 1, cursor |-> 0, page_size |-> 100, include_count |-> TRUE]}

-----------------------------------------------------------------------------
(* The outcomes of one call of an endpoint *)

Call(db, endpoint, a, fault) ==
    CASE endpoint = "get_trip_count" -> {get_trip_count(db, fault)}
      [] endpoint = "get_sample_trips" -> {get_sample_trips(db, s, fault) : s \in SampleResults(db)}
      [] endpoint = "get_trip_analytics" ->
            {get_trip_analytics(db, c[1], c[2], c[3], fault) :
                c \in calculate_avg_duration(db) \X find_peak_hour(db) \X get_vendor_distribution(db)}
      [] endpoint = "read_trip" -> {read_trip(db, a.trip_id, fault)}
      [] endpoint = "get_trips_by_page" ->
            {get_trips_by_page(db, a.page, a.page_size, a.include_count, fault)}
      [] endpoint = "get_trips_by_cursor" -> {get_trips_by_cursor(db, a.cursor, a.page_size, fault)}
      [] endpoint = "update_trip_vendor" -> {update_trip_vendor(db, a.trip_id, a.vendor_id, fault)}

-----------------------------------------------------------------------------
(* State machine *)

NoReq == [op |-> "none"]

NoResp == [status |-> 0]

NoChain == [state |-> "idle", page_size |-> 0, cursor |-> 0, visited |-> <<>>, calls |-> 0]

Tables(ids, vendors, pickups, dropoffs) ==
    UNION {[S -> [vendor_id : vendors, pickup_datetime : pickups, dropoff_datetime : dropoffs]] :
             S \in SUBSET ids}

Init ==
    /\ trips \in Tables(IdRange, Vendors, {0}, {1})
    /\ req = NoReq
    /\ resp = NoResp
    /\ queries = <<>>
    /\ chain = NoChain

\* one request: the endpoint runs to its response
Serve(endpoint, a, fault, http) ==
    /\ \E r \in Call(trips, endpoint, a, fault) :
          /\ req' = [op |-> endpoint, args |-> a, fault |-> fault, http |-> http]
          /\ resp' = ExceptionHandlers(r)
          /\ queries' = r.queries
          /\ trips' = r.db
    /\ UNCHANGED chain

GetTripCount ==
    /\ req = NoReq
    /\ \E fault \in FaultInputs(1) : Serve("get_trip_count", <<>>, fault, None)

GetSampleTrips ==
    /\ req = NoReq
    /\ \E fault \in FaultInputs(1) : Serve("get_sample_trips", <<>>, fault, None)

GetTripAnalytics ==
    /\ req = NoReq
    /\ \E fault \in FaultInputs(Len(AnalyticsQueries)) : Serve("get_trip_analytics", <<>>, fault, None)

ReadTrip ==
    /\ req = NoReq
    /\ \E trip_id \in TripIdInputs, fault \in FaultInputs(1) :
          Serve("read_trip", [trip_id |-> trip_id], fault, None)

GetTripsByPage ==
    /\ req = NoReq
    /\ \E page \in PageInputs, page_size \in PageSizeInputs, include_count \in BOOLEAN,
          fault \in FaultInputs(2) :
          Serve("get_trips_by_page",
                [page |-> page, page_size |-> page_size, include_count |-> include_count], fault, None)

GetTripsByCursor ==
    /\ req = NoReq
    /\ \E cursor \in CursorInputs, page_size \in PageSizeInputs, fault \in FaultInputs(1) :
          Serve("get_trips_by_cursor", [cursor |-> cursor, page_size |-> page_size], fault, None)

UpdateTripVendor ==
    /\ req = NoReq
    /\ \E trip_id \in TripIdInputs, vendor_id \in Vendors, fault \in FaultInputs(3) :
          Serve("update_trip_vendor", [trip_id |-> trip_id, vendor_id |-> vendor_id], fault, None)

\* a request addressed by method and path below /trips
HttpRequest ==
    /\ req = NoReq
    /\ \E method \in {"GET", "POST"}, path \in PathInputs, q \in QueryInputs, vendor_id \in Vendors :
        LET endpoint == ResolveRoute(method, path)
            http == Some([method |-> method, path |-> path])
        IN IF endpoint \in {"404", "405"}
           THEN /\ req' = [op |-> endpoint, args |-> <<>>, fault |-> NoFault, http |-> http]
                /\ resp' = [status |-> IF endpoint = "404" THEN 404 ELSE 405,
                            body |-> [detail |-> endpoint]]
                /\ queries' = <<>>
                /\ UNCHANGED <<trips, chain>>
           ELSE IF endpoint \in {"read_trip", "update_trip_vendor"} /\ ParseInt(path[1]) = None
           THEN /\ req' = [op |-> endpoint, args |-> <<>>, fault |-> NoFault, http |-> http]
                /\ resp' = ExceptionHandlers(RequestValidationError(trips))
                /\ queries' = <<>>
                /\ UNCHANGED <<trips, chain>>
           ELSE LET a == CASE endpoint = "read_trip" -> [trip_id |-> ParseInt(path[1])[1]]
                           [] endpoint = "update_trip_vendor" ->
                                 [trip_id |-> ParseInt(path[1])[1], vendor_id |-> vendor_id]
                           [] endpoint = "get_trips_by_page" ->
                                 [page |-> q.page, page_size |-> q.page_size, include_count |-> q.include_count]
                           [] endpoint = "get_trips_by_cursor" ->
                                 [cursor |-> q.cursor, page_size |-> q.page_size]
                           [] OTHER -> <<>>
                IN Serve(endpoint, a, NoFault, http)

\* the response has been sent: nothing of a request outlives it but the table
Complete ==
    /\ req # NoReq
    /\ req' = NoReq
    /\ resp' = NoResp
    /\ queries' = <<>>
    /\ UNCHANGED <<trips, chain>>

Next ==
    \/ GetTripCount
    \/ GetSampleTrips
    \/ GetTripAnalytics
    \/ ReadTrip
    \/ GetTripsByPage
    \/ GetTripsByCursor
    \/ UpdateTripVendor
    \/ HttpRequest
    \/ Complete

Spec == Init /\ [][Next]_vars

-----------------------------------------------------------------------------
(* A client following the cursor, as the endpoint's usage notes describe:  *)
(* the first page with cursor 0, each next page with the next_cursor of    *)
(* the response before it.                                                 *)

ChainPageSizes == (1..MaxPageSize) \cup {PageSizeMax}

ChainAfter(c, page_size, cursor, r) ==
    LET p == r.value.pagination
        more == p.has_next /\ p.next_cursor # None
    IN [state |-> IF more THEN "running" ELSE "done",
        page_size |-> page_size,
        cursor |-> IF more THEN p.next_cursor[1] ELSE cursor,
        visited |-> c.visited \o [k \in 1..Len(r.value.trips) |-> r.value.trips[k].id],
        calls |-> c.calls + 1]

ChainCall(c, page_size, cursor) ==
    LET r == get_trips_by_cursor(trips, cursor, page_size, NoFault)
    IN /\ req' = [op |-> "get_trips_by_cursor",
                  args |-> [cursor |-> cursor, page_size |-> page_size],
                  fault |-> NoFault, http |-> None]
       /\ resp' = ExceptionHandlers(r)
       /\ queries' = r.queries
       /\ trips' = r.db
       /\ chain' = ChainAfter(c, page_size, cursor, r)

\* list_by_cursor(0, p)
ChainStart ==
    /\ chain.state = "idle"
    /\ \E page_size \in ChainPageSizes : ChainCall(chain, page_size, 0)

\* list_by_cursor(next_cursor, p)
ChainStep ==
    /\ chain.state = "running"
    /\ ChainCall(chain, chain.page_size, chain.cursor)

ChainNext == ChainStart \/ ChainStep

ChainSpec == Init /\ [][ChainNext]_vars

-----
(* The analytics report over tables whose trips differ in their timestamps *)

\* the durations vary here and the vendors in Init
AnalyticsInit ==
    /\ trips \in Tables(1..MaxTrips, {"A"}, 0..MaxTime, 0..MaxTime)
    /\ req = NoReq
    /\ resp = NoResp
    /\ queries = <<>>
    /\ chain = NoChain

AnalyticsNext == GetTripAnalytics \/ Complete

AnalyticsSpec == AnalyticsInit /\ [][AnalyticsNext]_vars

-----------------------------------------------------------------------------
(* Properties *)

Served(op) == req.op = op /\ resp.status = 200

\* the store call that failed, if one did: it is the last one issued
FaultOccurred == req.op # "none" /\ req.fault.kind # "none" /\ Len(queries) = req.fault.at

StrictlyAscending(ids) == \A j, k \in 1..Len(ids) : j < k => ids[j] < ids[k]

IdsOf(rows) == [k \in 1..Len(rows) |-> rows[k].id]

Range(f) == {f[k] : k \in DOMAIN f}

\* the number of rows of the table whose id is at most i
Rank(i) == Cardinality({j \in DOMAIN trips : j <= i})

PositiveIds == {i \in DOMAIN trips : i > 0}

\* C1: cursor continuity.  Following next_cursor from cursor 0 visits rows in
\* strictly ascending id order, only rows with id > 0.  While has_next is true
\* every call so far returned page_size rows, rows remain, and the cursor is
\* the last id visited; so the chain ends within ceil(N / page_size) calls (one
\* call when N = 0), N the number of rows with id > 0, and when it has ended
\* (has_next false) the rows visited are exactly those N rows, each once.
C1_CursorContinuity ==
    /\ chain.state # "idle" =>
          /\ StrictlyAscending(chain.visited)
          /\ Range(chain.visited) \subseteq PositiveIds
          /\ resp.status = 200
    /\ chain.state = "running" =>
          /\ resp.body.pagination.has_next
          /\ Len(chain.visited) = chain.calls * chain.page_size
          /\ Len(chain.visited) < Cardinality(PositiveIds)
          /\ chain.cursor = chain.visited[Len(chain.visited)]
    /\ chain.state = "done" =>
          /\ ~resp.body.pagination.has_next
          /\ Range(chain.visited) = PositiveIds
          /\ Len(chain.visited) = Cardinality(PositiveIds)
          /\ (chain.calls - 1) * chain.page_size < Max(1, Cardinality(PositiveIds))
          /\ chain.calls * chain.page_size >= Cardinality(PositiveIds)

\* a chain of three calls that has visited three rows and skipped a row with id <= 0
C1_Witness ==
    /\ chain.state = "done"
    /\ chain.page_size = 1
    /\ chain.calls = 3
    /\ Len(chain.visited) = 3
    /\ req.args.cursor = chain.visited[2]
    /\ 0 \in DOMAIN trips

\* C2: a served page n of size p holds the rows at positions (n-1)*p+1 .. n*p
\* of the table in id order (fewer when the table ends), so at most p rows,
\* strictly ascending; has_next iff the table has more than n*p rows and
\* has_previous iff n > 1.
C2_PageWindow ==
    Served("get_trips_by_page") /\ req.http = None =>
        LET n == req.args.page
            p == req.args.page_size
            rows == resp.body.trips
            N == Cardinality(DOMAIN trips)
        IN /\ Len(rows) <= p
           /\ Len(rows) = Max(0, Min(p, N - (n - 1) * p))
           /\ StrictlyAscending(IdsOf(rows))
           /\ \A k \in 1..Len(rows) :
                 /\ rows[k].id \in DOMAIN trips
                 /\ Rank(rows[k].id) = (n - 1) * p + k
                 /\ rows[k] = TaxiTripRead(trips, rows[k].id)
           /\ resp.body.pagination.has_next = (N > n * p)
           /\ resp.body.pagination.has_previous = (n > 1)

\* a second page that is full and has a successor
C2_Witness ==
    /\ Served("get_trips_by_page")
    /\ req.args.page = 2
    /\ req.args.page_size = 2
    /\ Len(resp.body.trips) = 2
    /\ resp.body.pagination.has_next
    /\ resp.body.pagination.has_previous

\* C3: a served cursor request (c, p) returns the p smallest ids above c in
\* ascending order, nothing at or below c; has_next iff more than p rows lie
\* above c; next_cursor is the last returned id when has_next and absent
\* otherwise; previous_cursor is max(0, c - p) when c > 0 and absent when c = 0.
C3_CursorWindow ==
    Served("get_trips_by_cursor") /\ req.http = None =>
        LET c == req.args.cursor
            p == req.args.page_size
            rows == resp.body.trips
            above == {i \in DOMAIN trips : i > c}
            pg == resp.body.pagination
        IN /\ Len(rows) = Min(p, Cardinality(above))
           /\ StrictlyAscending(IdsOf(rows))
           /\ Range(IdsOf(rows)) \subseteq above
           /\ \A i \in above \ Range(IdsOf(rows)) : \A k \in 1..Len(rows) : rows[k].id < i
           /\ \A k \in 1..Len(rows) : rows[k] = TaxiTripRead(trips, rows[k].id)
           /\ pg.has_next = (Cardinality(above) > p)
           /\ pg.next_cursor = (IF pg.has_next THEN Some(rows[Len(rows)].id) ELSE None)
           /\ pg.previous_cursor = (IF c > 0 THEN Some(Max(0, c - p)) ELSE None)

\* a window from a positive cursor that skips rows and leaves rows behind
C3_Witness ==
    /\ Served("get_trips_by_cursor")
    /\ req.args.cursor = 1
    /\ req.args.page_size = 2
    /\ Len(resp.body.trips) = 2
    /\ resp.body.pagination.has_next
    /\ resp.body.pagination.previous_cursor = Some(0)
    /\ 1 \in DOMAIN trips

\* C4: update_vendor on an id that is not in the table leaves the table
\* unchanged, issues no write and, the store answering, is not-found; on an id
\* that is in the table, the store answering, it succeeds, writes and commits,
\* changes vendor_id of that row alone to v, and a read of the id then
\* returns v.  A request that does not succeed changes nothing.
C4_UpdateVendor ==
    [][ req'.op = "update_trip_vendor" /\ req'.http = None =>
          LET id == req'.args.trip_id
              v == req'.args.vendor_id
              answered == ~(req'.fault.kind # "none" /\ Len(queries') = req'.fault.at)
          IN /\ id \notin DOMAIN trips =>
                  /\ trips' = trips
                  /\ \A k \in 1..Len(queries') : queries'[k] \notin {"update", "commit"}
                  /\ answered => resp'.status = 404
             /\ id \in DOMAIN trips /\ answered =>
                  /\ resp'.status = 200
                  /\ queries' = <<"select_by_id", "update", "commit">>
                  /\ DOMAIN trips' = DOMAIN trips
                  /\ trips'[id].vendor_id = v
                  /\ trips'[id].pickup_datetime = trips[id].pickup_datetime
                  /\ trips'[id].dropoff_datetime = trips[id].dropoff_datetime
                  /\ \A j \in DOMAIN trips \ {id} : trips'[j] = trips[j]
                  /\ read_trip(trips', id, NoFault).exc = "none" =>
                        read_trip(trips', id, NoFault).value.vendor_id = v
             /\ resp'.status # 200 => trips' = trips ]_vars

\* an update that changed the vendor of one row of a table of several rows
C4_Witness ==
    /\ Served("update_trip_vendor")
    /\ req.args.trip_id = 2
    /\ req.args.vendor_id = "B"
    /\ 2 \in DOMAIN trips /\ trips[2].vendor_id = "B"
    /\ \E j \in DOMAIN trips : j # 2 /\ trips[j].vendor_id = "A"
    /\ queries = <<"select_by_id", "update", "commit">>

\* C5: a store call failing as unavailable (OperationalError) or timed out
\* (TimeoutError) gives the caller a response different from the one the same
\* request gets when the same call fails with a generic store error.
C5_FaultKindPropagated ==
    FaultOccurred /\ req.fault.kind \in {"OperationalError", "TimeoutError"} =>
        \A r \in Call(trips, req.op, req.args, [kind |-> "SQLAlchemyError", at |-> req.fault.at]) :
            ExceptionHandlers(r) # resp

\* C6: GET /trips/pages is dispatched to get_trips_by_page and GET
\* /trips/stream to get_trips_by_cursor, and each is served its window.
C6_ListRoutesDispatched ==
    /\ req.op # "none" /\ req.http = Some([method |-> "GET", path |-> <<"pages">>]) =>
          req.op = "get_trips_by_page" /\ resp.status = 200
    /\ req.op # "none" /\ req.http = Some([method |-> "GET", path |-> <<"stream">>]) =>
          req.op = "get_trips_by_cursor" /\ resp.status = 200

\* C7: a page or cursor request with page_size outside 1..1000, page < 1 or
\* cursor < 0 is answered as a validation failure and issues no query.
C7_ValidationBeforeQuery ==
    /\ req.op = "get_trips_by_page" /\ req.http = None
         /\ (req.args.page < 1 \/ req.args.page_size < 1 \/ req.args.page_size > 1000) =>
            resp.status = 422 /\ queries = <<>>
    /\ req.op = "get_trips_by_cursor" /\ req.http = None
         /\ (req.args.cursor < 0 \/ req.args.page_size < 1 \/ req.args.page_size > 1000) =>
            resp.status = 422 /\ queries = <<>>
    /\ req.op \in {"get_trips_by_page", "get_trips_by_cursor"} /\ resp.status = 422 =>
            queries = <<>>

\* a page request rejected for a page_size just above the limit
C7_Witness ==
    /\ req.op = "get_trips_by_page"
    /\ req.args.page = 1
    /\ req.args.page_size = 1001
    /\ resp.status = 422
    /\ queries = <<>>

\* C8: a page request with include_count false issues no count query, its
\* only store call is the row fetch, and it reports total_count = -1 and
\* total_pages = -1; with include_count true it issues one count query and
\* reports total_pages = ceil(total_count / page_size).
C8_CountOnlyOnRequest ==
    req.op = "get_trips_by_page" /\ req.http = None /\ resp.status # 422 =>
        LET p == req.args.page_size
        IN /\ ~req.args.include_count =>
                /\ queries = <<"select_page">>
                /\ resp.status = 200 =>
                      /\ resp.body.pagination.total_count = -1
                      /\ resp.body.pagination.total_pages = -1
           /\ req.args.include_count /\ resp.status = 200 =>
                /\ queries = <<"count", "select_page">>
                /\ resp.body.pagination.total_count = Cardinality(DOMAIN trips)
                /\ resp.body.pagination.total_pages * p >= Cardinality(DOMAIN trips)
                /\ (resp.body.pagination.total_pages - 1) * p < Cardinality(DOMAIN trips)
                /\ resp.body.pagination.total_pages >= 0

\* a page served without a count from a table that has rows
C8_Witness ==
    /\ Served("get_trips_by_page")
    /\ ~req.args.include_count
    /\ Len(resp.body.trips) = 2
    /\ queries = <<"select_page">>
    /\ resp.body.pagination.total_pages = -1

\* the trips that qualify for the average duration
Qualifying == {i \in DOMAIN trips : trips[i].dropoff_datetime > trips[i].pickup_datetime}

RECURSIVE TotalSeconds(_)
TotalSeconds(S) ==
    IF S = {} THEN 0
    ELSE LET i == CHOOSE x \in S : TRUE
         IN trips[i].dropoff_datetime - trips[i].pickup_datetime + TotalSeconds(S \ {i})

\* C9 as stated: the average duration is the mean, in minutes, over the trips
\* with dropoff > pickup, and 0.0 when there is none.  (The metric is in
\* hundredths of a minute: metric/100 = seconds/(60*count).)
C9_ExactMean ==
    Served("get_trip_analytics") =>
        IF Qualifying = {} THEN resp.body.avg_trip_duration_minutes = 0
        ELSE resp.body.avg_trip_duration_minutes * 60 * Cardinality(Qualifying)
                = 100 * TotalSeconds(Qualifying)

\* C9 amended: the average duration is the mean, in minutes, over exactly the
\* trips with dropoff > pickup, rounded to two decimal places (so within half
\* a hundredth of the mean), and exactly 0.0 when no trip qualifies.
C9_RoundedMean ==
    Served("get_trip_analytics") =>
        IF Qualifying = {} THEN resp.body.avg_trip_duration_minutes = 0
        ELSE LET d == resp.body.avg_trip_duration_minutes * 60 * Cardinality(Qualifying)
                        - 100 * TotalSeconds(Qualifying)
             IN 2 * d <= 60 * Cardinality(Qualifying) /\ 2 * d >= 0 - 60 * Cardinality(Qualifying)

\* a report over a table with a trip that qualifies and one that does not
C9_Witness ==
    /\ Served("get_trip_analytics")
    /\ Qualifying # {}
    /\ \E i \in DOMAIN trips : trips[i].dropoff_datetime = trips[i].pickup_datetime
    /\ \E i \in DOMAIN trips : trips[i].dropoff_datetime < trips[i].pickup_datetime
    /\ resp.body.avg_trip_duration_minutes > 0

\* C10: a served, non-empty page has previous_cursor present exactly when
\* page > 1, and then equal to max(0, first_row.id - page_size).
C10_PagePreviousCursor ==
    Served("get_trips_by_page") /\ req.http = None /\ Len(resp.body.trips) > 0 =>
        resp.body.pagination.previous_cursor =
            (IF req.args.page > 1
             THEN Some(Max(0, resp.body.trips[1].id - req.args.page_size))
             ELSE None)

====
